---- MODULE Spec2Model ----
(***************************************************************************)
(* Grad-CAM engine of backend/app/cam.py (class GradCAM) and its caller    *)
(* backend/app/main.py, as state machines.                                 *)
(*                                                                         *)
(*   Spec        get_cam calls issued one after another on engines that    *)
(*               share one model and one target layer                      *)
(*   SpecConc    the requests of /predict and /predict_cam interleaved     *)
(*               with no lock, one engine per /predict_cam request (what   *)
(*               the handlers do under FastAPI's thread pool)              *)
(*   SpecResolve GradCAM.__init__'s target layer resolution                *)
(*   SpecCam     the heatmap arithmetic of get_cam (lines 131-147)         *)
(*   SpecOverlay the overlay renderers of utils.py and GradCAM.overlay     *)
(*   SpecApi     the endpoints /predict and /predict_cam of main.py, one   *)
(*               request served alone, from upload to response             *)
(***************************************************************************)
EXTENDS Integers, Sequences, FiniteSets, TLC

(***************************************************************************)
(* Bounds of the model.                                                    *)
(***************************************************************************)
NumEngines == 2
MaxCalls == 2
NumClasses == 2
NumPredicts == 1

Engines == 1 .. NumEngines
Classes == 0 .. (NumClasses - 1)

\* the pool threads that serve POST /predict
Predictors == 1 .. NumPredicts

(***************************************************************************)
(* The opaque torch model, as get_cam sees it.  An input tensor is one of  *)
(* a few kinds, named by what the forward pass does with it.               *)
(***************************************************************************)
Inputs == {"img", "skip", "flat", "bad"}

\* the forward pass runs through the target layer (its forward hooks fire)
Reaches(x) == x # "skip"

\* number of dimensions of the target layer's output (an unbatched input
\* gives a Conv2d output of 3 dimensions)
Rank(x) == IF x = "flat" THEN 3 ELSE 4

\* the forward pass raises after the target layer has run
ForwardRaises(x) == x = "bad"

\* logits[0, k] of the forward pass on x
Logits(x) ==
  [k \in Classes |->
     CASE x = "img" -> k
       [] x = "flat" -> IF k = 0 THEN 0 ELSE 1
       [] OTHER -> 0]

\* the backward pass from class k's score runs through the layer's output
\* (class 0's score of "img" does not depend on the layer)
GradReaches(x, k) == Reaches(x) /\ ~(x = "img" /\ k = 0)

(***************************************************************************)
(* Values held by the program.                                             *)
(***************************************************************************)
NoTarget == 0 - 99          \* target_class is None

\* the values a caller may pass as target_class: None, a valid index
\* (-1 is the last class), or NumClasses, which is out of range
TargetChoices == {NoTarget} \cup ((0 - 1) .. NumClasses)

\* self._activations / self._gradients: None, or the tensor produced by
\* call n's pass on input x (for class k)
NoCapture == [n |-> 0, x |-> "-", k |-> NoTarget]
ActTag(n, x) == [n |-> n, x |-> x, k |-> NoTarget]
GradTag(n, x, k) == [n |-> n, x |-> x, k |-> k]

\* the locals of a get_cam call: its number, its arguments, the class of the
\* backward pass, the hooks of a pass still to run (todo), and the engines
\* whose grad_hook is attached to this call's layer output (gh), in order
NoLocals == [n |-> 0, x |-> "-", tc |-> NoTarget, cls |-> NoTarget,
             todo |-> <<>>, gh |-> <<>>]
\* the locals of a prediction pass: its input and, while it is in the
\* layer's hooks, the fwd_hook it has entered
NoPass == [x |-> "-", todo |-> <<>>]
NoResult == [kind |-> "idle", why |-> "-", acts |-> NoCapture, grads |-> NoCapture,
             eng |-> 0, n |-> 0, x |-> "-", tc |-> NoTarget, cls |-> NoTarget]

VARIABLES
  training,    \* model.training
  ownerMode,   \* the mode the model's owner set before any engine existed
  weights,     \* version of the model's parameters and buffers
  paramGrad,   \* the model's parameters hold an accumulated .grad
  life,        \* per engine: "new" (not constructed), "inferring" (its
               \* request's prediction pass is in a fwd_hook), "inferred" (its
               \* request has its predictions), "ready", "dead"
  acts,        \* per engine: self._activations
  grads,       \* per engine: self._gradients
  hooks,       \* per engine: number of its fwd_hook closures registered on the layer
  hookSeq,     \* the layer's _forward_hooks, in registration order, each
               \* fwd_hook named by its engine
  pc,          \* per engine: position of the get_cam call in progress
  loc,         \* per engine: locals of the call in progress
  last,        \* outcome of the call that ended latest, as handed to its caller
  ncalls,      \* number of get_cam calls started so far
  pred,        \* per /predict thread: the prediction pass in progress
  mdl,         \* the model's attribute tree (SpecResolve)
  req,         \* the target_layer argument of GradCAM.__init__ (SpecResolve)
  tgt,         \* outcome of __init__: the target module, or the error (SpecResolve)
  camA,        \* acts[0]: the captured activation, channel x pixel (SpecCam)
  camG,        \* grads[0]: the captured gradient, channel x pixel (SpecCam)
  camX,        \* shape of the input tensor, (N, 3, H, W) (SpecCam)
  camDims,     \* shape of the captured tensors, (N, C, h, w) (SpecCam)
  heat,        \* the heatmap get_cam returns for them (SpecCam)
  ovBase,      \* the base image handed to an overlay function (SpecOverlay)
  ovHeat,      \* the heatmap handed to it, or None (SpecOverlay)
  ovOut,       \* what the overlay function returned (SpecOverlay)
  apiReq,      \* the HTTP request being served (SpecApi)
  apiResp      \* the response to it, and what the handler did (SpecApi)

vars == <<training, ownerMode, weights, paramGrad, life, acts, grads, hooks,
          hookSeq, pc, loc, last, ncalls, pred, mdl, req, tgt, camA, camG,
          camX, camDims, heat, ovBase, ovHeat, ovOut, apiReq, apiResp>>
engineVars == <<weights, paramGrad, life, acts, grads, hooks, hookSeq, pc, loc,
                last, ncalls, pred>>
resolveVars == <<mdl, req, tgt>>
camVars == <<camA, camG, camX, camDims, heat>>
overlayVars == <<ovBase, ovHeat, ovOut>>
apiVars == <<apiReq, apiResp>>

TypeOK ==
  /\ training \in BOOLEAN
  /\ ownerMode \in {"train", "eval"}
  /\ weights \in 0 .. 1
  /\ paramGrad \in BOOLEAN
  /\ life \in [Engines -> {"new", "inferring", "inferred", "ready", "dead"}]
  /\ pred \in [Predictors -> [x : Inputs \cup {"-"}, todo : Seq(Engines)]]
  /\ hooks \in [Engines -> 0 .. MaxCalls]
  /\ hookSeq \in Seq(Engines)
  /\ \A e \in Engines :
       hooks[e] = Cardinality({i \in DOMAIN hookSeq : hookSeq[i] = e})
  /\ pc \in [Engines -> {"idle", "cleared", "hooked", "hooking", "forwarded",
                         "picked", "zeroed", "backwarding", "backwarded",
                         "released"}]
  /\ ncalls \in 0 .. MaxCalls

EnginesIdle ==
  /\ training = (ownerMode = "train")
  /\ weights = 0
  /\ paramGrad = FALSE
  /\ life = [e \in Engines |-> "new"]
  /\ acts = [e \in Engines |-> NoCapture]
  /\ grads = [e \in Engines |-> NoCapture]
  /\ hooks = [e \in Engines |-> 0]
  /\ hookSeq = <<>>
  /\ pc = [e \in Engines |-> "idle"]
  /\ loc = [e \in Engines |-> NoLocals]
  /\ last = NoResult
  /\ ncalls = 0
  /\ pred = [p \in Predictors |-> NoPass]

NoCallInProgress == \A e \in Engines : pc[e] = "idle"

(***************************************************************************)
(* GradCAM.__init__ on the application's model: model.eval(), the target   *)
(* layer (resolution itself is SpecResolve's subject), empty buffers.      *)
(***************************************************************************)
\* line 39: self.model = model.eval()
ModeAfterInit(mode) == FALSE

\* (`perRequest`: the engine is built by a predict_cam request, after its
\* prediction pass)
Construct(e, perRequest) ==
  /\ life[e] = IF perRequest THEN "inferred" ELSE "new"
  /\ training' = ModeAfterInit(training)
  /\ life' = [life EXCEPT ![e] = "ready"]
  /\ acts' = [acts EXCEPT ![e] = NoCapture]
  /\ grads' = [grads EXCEPT ![e] = NoCapture]
  /\ UNCHANGED <<ownerMode, weights, paramGrad, hooks, hookSeq, pc, loc, last,
                 ncalls>>
  /\ UNCHANGED <<pred, resolveVars, camVars, overlayVars, apiVars>>

(***************************************************************************)
(* The model as an attribute tree, for target layer resolution.            *)
(*                                                                         *)
(* The root module holds up to three attributes, defined in the order      *)
(* stem, features, head.  An attribute is a Conv2d ("conv"), another leaf  *)
(* module ("act"), a module holding one Conv2d named conv ("block"), a     *)
(* container of sub-modules ("seq", features only) or a tensor, which is   *)
(* no module.  A container's i-th child is named NameList[i].  A Conv2d is *)
(* built with bias=False, as torchvision's DenseNet builds them: it has    *)
(* the attributes weight (a tensor) and bias (None).                       *)
(***************************************************************************)
MaxKids == 3

NameList == <<"A", "B", "C", "D">>
KidNames == {NameList[i] : i \in 1 .. MaxKids}
KidKinds == {"conv", "act", "block"}
LeafKinds == {"conv", "act", "block", "tensor"}
ModuleKinds == {"root", "seq", "conv", "act", "block"}

KidSeqs == UNION {[1 .. n -> KidKinds] : n \in 0 .. MaxKids}

Entry(name, kind, kids) == [name |-> name, kind |-> kind, kids |-> kids]

StemOpts == {<<>>} \cup {<<Entry("stem", k, <<>>)>> : k \in LeafKinds}
HeadOpts == {<<>>} \cup {<<Entry("head", k, <<>>)>> : k \in LeafKinds}
FeatOpts ==
  {<<>>} \cup {<<Entry("features", k, <<>>)>> : k \in {"conv", "tensor"}}
         \cup {<<Entry("features", "seq", ks)>> : ks \in KidSeqs}

Models == {s \o f \o h : s \in StemOpts, f \in FeatOpts, h \in HeadOpts}

\* the application's model: DenseNet-like features, a Linear classifier
AppModel == <<Entry("features", "seq", <<"conv", "block", "act">>),
              Entry("head", "act", <<>>)>>

\* target_layer: None, or a dotted path split into its segments
NoPath == [given |-> FALSE, segs |-> <<>>]
PathChoices ==
  LET s1 == {"features", "head", "zz"}
      s2 == KidNames \cup {"bias", "zz"}
      s3 == {"conv", "bias"}
  IN {<<a>> : a \in s1} \cup {<<a, b>> : a \in s1, b \in s2}
       \cup {<<a, b, c>> : a \in s1, b \in s2, c \in s3}
Requests == {NoPath} \cup {[given |-> TRUE, segs |-> p] : p \in PathChoices}

\* a Python object reached in the tree: its kind, where it sits, and for a
\* container its children
Obj(kind, path, kids) == [kind |-> kind, path |-> path, kids |-> kids]
PyNone == Obj("None", <<>>, <<>>)
Missing == Obj("missing", <<>>, <<>>)
Root(m) == Obj("root", <<>>, m)

\* hasattr(obj, name) / getattr(obj, name): Missing when hasattr is False
GetAttr(obj, name) ==
  CASE obj.kind = "root" ->
         IF \E i \in 1 .. Len(obj.kids) : obj.kids[i].name = name
           THEN LET i == CHOOSE i \in 1 .. Len(obj.kids) : obj.kids[i].name = name
                IN Obj(obj.kids[i].kind, <<name>>, obj.kids[i].kids)
           ELSE Missing
    [] obj.kind = "seq" ->
         IF \E i \in 1 .. Len(obj.kids) : NameList[i] = name
           THEN LET i == CHOOSE i \in 1 .. Len(obj.kids) : NameList[i] = name
                IN Obj(obj.kids[i], Append(obj.path, name), <<>>)
           ELSE Missing
    [] obj.kind = "block" ->
         IF name = "conv" THEN Obj("conv", Append(obj.path, name), <<>>)
         ELSE Missing
    [] obj.kind = "conv" ->
         IF name = "weight" THEN Obj("tensor", Append(obj.path, name), <<>>)
         ELSE IF name = "bias" THEN PyNone
         ELSE Missing
    [] OTHER -> Missing

\* _get_module_by_name: walk the segments; None as soon as one is missing
RECURSIVE GetModuleByName(_, _)
GetModuleByName(current, parts) ==
  IF parts = <<>> THEN current
  ELSE LET nxt == GetAttr(current, Head(parts))
       IN IF nxt.kind = "missing" THEN PyNone
          ELSE GetModuleByName(nxt, Tail(parts))

\* Module.named_modules(): the module itself, then its sub-modules, each
\* with its own sub-modules, in definition order
RECURSIVE KidModules(_, _)
KidModules(obj, i) ==
  IF i > Len(obj.kids) THEN <<>>
  ELSE LET kid == Obj(obj.kids[i], Append(obj.path, NameList[i]), <<>>)
       IN (IF kid.kind = "block"
             THEN <<kid, Obj("conv", Append(kid.path, "conv"), <<>>)>>
             ELSE <<kid>>)
          \o KidModules(obj, i + 1)

NamedModules(obj) ==
  CASE obj.kind = "seq" -> <<obj>> \o KidModules(obj, 1)
    [] obj.kind = "block" -> <<obj, Obj("conv", Append(obj.path, "conv"), <<>>)>>
    [] obj.kind \in {"conv", "act"} -> <<obj>>
    [] OTHER -> <<>>

RECURSIVE EntryModules(_, _)
EntryModules(m, i) ==
  IF i > Len(m) THEN <<>>
  ELSE NamedModules(Obj(m[i].kind, <<m[i].name>>, m[i].kids)) \o EntryModules(m, i + 1)

RootModules(m) == <<Root(m)>> \o EntryModules(m, 1)

\* the Conv2d instances of a module list, in its order
RECURSIVE Convs(_)
Convs(mods) ==
  IF mods = <<>> THEN <<>>
  ELSE (IF Head(mods).kind = "conv" THEN <<Head(mods)>> ELSE <<>>) \o Convs(Tail(mods))

\* (taking the first candidate)
FirstCandidate(cands) == cands[1]

\* candidates[-1]
LastCandidate(cands) == cands[Len(cands)]

\* _auto_select_target_layer: the last Conv2d under model.features, else the
\* last Conv2d of the model, else None
AutoSelectTargetLayer(m) ==
  LET features == GetAttr(Root(m), "features")
      under == IF features.kind \in ModuleKinds
                 THEN Convs(NamedModules(features)) ELSE <<>>
      candidates == IF under = <<>> THEN Convs(RootModules(m)) ELSE under
  IN IF candidates # <<>> THEN LastCandidate(candidates) ELSE PyNone

Unbuilt == [status |-> "unbuilt", target |-> PyNone]

\* (an __init__ that auto-selects when the path does not resolve)
ResolveOrFallBack(m, r) ==
  IF r.given
    THEN LET module == GetModuleByName(Root(m), r.segs)
         IN IF module.kind = "None"
              THEN LET auto == AutoSelectTargetLayer(m)
                   IN IF auto.kind = "None"
                        THEN [status |-> "NoTargetLayerFound", target |-> PyNone]
                        ELSE [status |-> "ok", target |-> auto]
              ELSE [status |-> "ok", target |-> module]
    ELSE LET auto == AutoSelectTargetLayer(m)
         IN IF auto.kind = "None"
              THEN [status |-> "NoTargetLayerFound", target |-> PyNone]
              ELSE [status |-> "ok", target |-> auto]

\* __init__ lines 45-54: the target module, or the ValueError raised
ResolveLayer(m, r) ==
  IF r.given
    THEN LET module == GetModuleByName(Root(m), r.segs)
         IN IF module.kind = "None"
              THEN [status |-> "LayerNotFound", target |-> PyNone]
              ELSE [status |-> "ok", target |-> module]
    ELSE LET auto == AutoSelectTargetLayer(m)
         IN IF auto.kind = "None"
              THEN [status |-> "NoTargetLayerFound", target |-> PyNone]
              ELSE [status |-> "ok", target |-> auto]

\* GradCAM(model, target_layer) with a dotted path
InitWithPath ==
  /\ tgt = Unbuilt
  /\ req.given
  /\ training' = ModeAfterInit(training)
  /\ tgt' = ResolveLayer(mdl, req)
  /\ UNCHANGED <<ownerMode, engineVars, mdl, req, camVars, overlayVars, apiVars>>

\* GradCAM(model): auto-selection
InitAuto ==
  /\ tgt = Unbuilt
  /\ ~req.given
  /\ training' = ModeAfterInit(training)
  /\ tgt' = ResolveLayer(mdl, req)
  /\ UNCHANGED <<ownerMode, engineVars, mdl, req, camVars, overlayVars, apiVars>>

(***************************************************************************)
(* get_cam, one action per statement group.  `solo` is the caller's        *)
(* discipline: TRUE when calls are issued one after another.               *)
(***************************************************************************)

\* (a _clear_captures that clears nothing)
KeepCapture(old) == old

\* _clear_captures: the value a buffer holds afterwards
ClearedCapture(old) == NoCapture

\* lines 82-86: the call starts and clears both buffers
Clear(e, x, tc, solo) ==
  /\ life[e] = "ready"
  /\ pc[e] = "idle"
  /\ solo => NoCallInProgress
  /\ ~solo => x = loc[e].x /\ tc = loc[e].tc
  /\ ncalls < MaxCalls
  /\ ncalls' = ncalls + 1
  /\ acts' = [acts EXCEPT ![e] = ClearedCapture(acts[e])]
  /\ grads' = [grads EXCEPT ![e] = ClearedCapture(grads[e])]
  /\ loc' = [loc EXCEPT ![e] = [n |-> ncalls + 1, x |-> x, tc |-> tc,
                                cls |-> tc, todo |-> <<>>, gh |-> <<>>]]
  /\ pc' = [pc EXCEPT ![e] = "cleared"]
  /\ last' = IF solo THEN NoResult ELSE last
  /\ UNCHANGED <<training, ownerMode, weights, paramGrad, life, hooks, hookSeq>>
  /\ UNCHANGED <<pred, resolveVars, camVars, overlayVars, apiVars>>

\* lines 89-98: register_forward_hook(fwd_hook) on the target module
Register(e) ==
  /\ pc[e] = "cleared"
  /\ hooks' = [hooks EXCEPT ![e] = @ + 1]
  /\ hookSeq' = Append(hookSeq, e)
  /\ pc' = [pc EXCEPT ![e] = "hooked"]
  /\ UNCHANGED <<training, ownerMode, weights, paramGrad, life, acts, grads,
                 loc, last, ncalls>>
  /\ UNCHANGED <<pred, resolveVars, camVars, overlayVars, apiVars>>

\* an exception leaves get_cam: what the caller sees of the call
Raised(e, why) ==
  [NoResult EXCEPT !.kind = "raised", !.why = why, !.eng = e, !.n = loc[e].n,
                   !.x = loc[e].x, !.tc = loc[e].tc, !.cls = loc[e].cls]

\* a forward pass in training mode updates the normalisation layers' running
\* statistics; in eval mode it leaves parameters and buffers alone
WeightsAfterForward(mode, w) == IF mode THEN 1 ELSE w

\* the fwd_hooks that run when the layer produces an output: Module's call
\* iterates over a copy of the hooks registered at that moment, whoever
\* registered them, in registration order
Fired(x) == IF Reaches(x) THEN hookSeq ELSE <<>>

\* lines 100-102: logits = self.model(input_tensor), up to the target layer's
\* output
Forward(e) ==
  /\ pc[e] = "hooked"
  /\ weights' = WeightsAfterForward(training, weights)
  /\ loc' = [loc EXCEPT ![e].todo = Fired(loc[e].x)]
  /\ pc' = [pc EXCEPT ![e] = "hooking"]
  /\ UNCHANGED <<training, ownerMode, paramGrad, life, acts, grads, hooks,
                 hookSeq, last, ncalls>>
  /\ UNCHANGED <<pred, resolveVars, camVars, overlayVars, apiVars>>

\* lines 89-96, run by the pass of call e: the next fwd_hook stores the
\* output in its own engine's buffer and attaches that engine's grad_hook to
\* the output
RunHook(e) ==
  /\ pc[e] = "hooking"
  /\ loc[e].todo # <<>>
  /\ LET g == Head(loc[e].todo)
     IN /\ acts' = [acts EXCEPT ![g] = ActTag(loc[e].n, loc[e].x)]
        /\ loc' = [loc EXCEPT ![e].todo = Tail(@), ![e].gh = Append(@, g)]
  /\ UNCHANGED <<training, ownerMode, weights, paramGrad, life, grads, hooks,
                 hookSeq, pc, last, ncalls>>
  /\ UNCHANGED <<pred, resolveVars, camVars, overlayVars, apiVars>>

\* line 102, the rest of the pass: it returns the logits, or raises
ForwardEnd(e, perRequest) ==
  /\ pc[e] = "hooking"
  /\ loc[e].todo = <<>>
  /\ IF ForwardRaises(loc[e].x)
       THEN /\ pc' = [pc EXCEPT ![e] = "idle"]
            /\ last' = Raised(e, "forward")
            /\ loc' = [loc EXCEPT ![e] = NoLocals]
            /\ life' = [life EXCEPT ![e] = IF perRequest THEN "dead" ELSE @]
       ELSE /\ pc' = [pc EXCEPT ![e] = "forwarded"]
            /\ UNCHANGED <<last, loc, life>>
  /\ UNCHANGED <<training, ownerMode, weights, paramGrad, acts, grads, hooks,
                 hookSeq, ncalls>>
  /\ UNCHANGED <<pred, resolveVars, camVars, overlayVars, apiVars>>

\* torch.argmax(logits, dim=1).item(): index of the maximum, the first one
\* on a tie
ArgMax(v) ==
  CHOOSE k \in DOMAIN v :
    /\ \A j \in DOMAIN v : v[j] <= v[k]
    /\ \A j \in DOMAIN v : j < k => v[j] < v[k]

\* (an engine that validates the caller's index: clamps it into range)
PickClamped(tc, x) ==
  IF tc = NoTarget THEN ArgMax(Logits(x))
  ELSE IF tc >= NumClasses THEN NumClasses - 1
  ELSE IF tc < 0 THEN 0 ELSE tc

\* lines 104-106: the target class, when the caller gave none
PickClass(tc, x) == IF tc = NoTarget THEN ArgMax(Logits(x)) ELSE tc

Pick(e) ==
  /\ pc[e] = "forwarded"
  /\ loc' = [loc EXCEPT ![e].cls = PickClass(loc[e].tc, loc[e].x)]
  /\ pc' = [pc EXCEPT ![e] = "picked"]
  /\ UNCHANGED <<training, ownerMode, weights, paramGrad, life, acts, grads,
                 hooks, hookSeq, last, ncalls>>
  /\ UNCHANGED <<pred, resolveVars, camVars, overlayVars, apiVars>>

\* line 109: self.model.zero_grad(set_to_none=True)
ZeroGrad(e) ==
  /\ pc[e] = "picked"
  /\ paramGrad' = FALSE
  /\ pc' = [pc EXCEPT ![e] = "zeroed"]
  /\ UNCHANGED <<training, ownerMode, weights, life, acts, grads, hooks, hookSeq, loc,
                 last, ncalls>>
  /\ UNCHANGED <<pred, resolveVars, camVars, overlayVars, apiVars>>

\* logits[:, target_class]: Python indexing of a dimension of NumClasses
InRange(c) == (0 - NumClasses) <= c /\ c < NumClasses
PyIndex(c) == IF c < 0 THEN c + NumClasses ELSE c

\* lines 111-112: selected = logits[:, target_class].sum(); selected.backward().
\* The index raises IndexError out of range.  The backward pass first leaves
\* their gradients on the parameters behind the layer, then is to run the
\* grad_hooks attached to the layer's output of this forward pass, in the
\* order they were attached.
Backward(e, perRequest) ==
  /\ pc[e] = "zeroed"
  /\ LET x == loc[e].x
         c == loc[e].cls
     IN IF ~InRange(c)
          THEN /\ pc' = [pc EXCEPT ![e] = "idle"]
               /\ last' = Raised(e, "IndexError")
               /\ loc' = [loc EXCEPT ![e] = NoLocals]
               /\ life' = [life EXCEPT ![e] = IF perRequest THEN "dead" ELSE @]
               /\ UNCHANGED paramGrad
          ELSE /\ paramGrad' = TRUE
               /\ loc' = [loc EXCEPT ![e].todo =
                            IF GradReaches(x, PyIndex(c)) THEN loc[e].gh
                                                          ELSE <<>>]
               /\ pc' = [pc EXCEPT ![e] = "backwarding"]
               /\ UNCHANGED <<last, life>>
  /\ UNCHANGED <<training, ownerMode, weights, acts, grads, hooks, hookSeq,
                 ncalls>>
  /\ UNCHANGED <<pred, resolveVars, camVars, overlayVars, apiVars>>

\* lines 93-94, run by the backward pass of call e: the next grad_hook stores
\* the gradient in its own engine's buffer
RunGradHook(e) ==
  /\ pc[e] = "backwarding"
  /\ loc[e].todo # <<>>
  /\ grads' = [grads EXCEPT ![Head(loc[e].todo)] =
                 GradTag(loc[e].n, loc[e].x, PyIndex(loc[e].cls))]
  /\ loc' = [loc EXCEPT ![e].todo = Tail(@)]
  /\ UNCHANGED <<training, ownerMode, weights, paramGrad, life, acts, hooks,
                 hookSeq, pc, last, ncalls>>
  /\ UNCHANGED <<pred, resolveVars, camVars, overlayVars, apiVars>>

\* line 112, the rest of the backward pass: the parameters before the layer
\* hold their gradients too
BackwardEnd(e) ==
  /\ pc[e] = "backwarding"
  /\ loc[e].todo = <<>>
  /\ paramGrad' = TRUE
  /\ pc' = [pc EXCEPT ![e] = "backwarded"]
  /\ UNCHANGED <<training, ownerMode, weights, life, acts, grads, hooks,
                 hookSeq, loc, last, ncalls>>
  /\ UNCHANGED <<pred, resolveVars, camVars, overlayVars, apiVars>>

\* the hooks left on the layer when engine e's latest handle is removed
WithoutLast(seq, e) ==
  LET i == CHOOSE k \in DOMAIN seq :
             seq[k] = e /\ \A j \in DOMAIN seq : j > k => seq[j] # e
  IN SubSeq(seq, 1, i - 1) \o SubSeq(seq, i + 1, Len(seq))

\* lines 114-118: hook_handle.remove()
Release(e) ==
  /\ pc[e] = "backwarded"
  /\ hooks' = [hooks EXCEPT ![e] = @ - 1]
  /\ hookSeq' = WithoutLast(hookSeq, e)
  /\ pc' = [pc EXCEPT ![e] = "released"]
  /\ UNCHANGED <<training, ownerMode, weights, paramGrad, life, acts, grads,
                 loc, last, ncalls>>
  /\ UNCHANGED <<pred, resolveVars, camVars, overlayVars, apiVars>>

\* (a check of the buffers that forgets the tensors' rank)
VerdictNoRank(a, g) ==
  IF a = NoCapture \/ g = NoCapture THEN "CaptureMissing" ELSE "ok"

\* lines 120-129: the two structural checks on the buffers
CaptureVerdict(a, g) ==
  IF a = NoCapture \/ g = NoCapture THEN "CaptureMissing"
  ELSE IF Rank(a.x) # 4 \/ Rank(g.x) # 4 THEN "UnexpectedTensorRank"
  ELSE "ok"

\* lines 120-147: None on a structural failure, else the heatmap combined from
\* the two buffers (its arithmetic is SpecCam's subject)
Finish(e, perRequest) ==
  /\ pc[e] = "released"
  /\ LET v == CaptureVerdict(acts[e], grads[e])
     IN last' = [kind |-> IF v = "ok" THEN "heatmap" ELSE "none",
                 why |-> v, acts |-> acts[e], grads |-> grads[e],
                 eng |-> e, n |-> loc[e].n, x |-> loc[e].x, tc |-> loc[e].tc,
                 cls |-> loc[e].cls]
  /\ pc' = [pc EXCEPT ![e] = "idle"]
  /\ loc' = [loc EXCEPT ![e] = NoLocals]
  /\ life' = [life EXCEPT ![e] = IF perRequest THEN "dead" ELSE @]
  /\ UNCHANGED <<training, ownerMode, weights, paramGrad, acts, grads, hooks, hookSeq,
                 ncalls>>
  /\ UNCHANGED <<pred, resolveVars, camVars, overlayVars, apiVars>>

(***************************************************************************)
(* The prediction pass of a request: logits = model(x) under               *)
(* torch.no_grad(), on the model every request and every engine shares.    *)
(***************************************************************************)

\* the layer's output in a pass under no_grad: it requires no gradient
NoGradTag(x) == [n |-> 0 - 1, x |-> x, k |-> NoTarget]

\* the fwd_hook a pass under no_grad enters when it reaches the layer: the
\* first of the hooks registered at that moment.  Its output.register_hook
\* raises, so the pass runs no other.
Entered(x) == IF Fired(x) = <<>> THEN <<>> ELSE <<Head(Fired(x))>>

\* cam.py line 91, run by a pass under no_grad on x: self._activations =
\* output, in the buffer of the engine whose fwd_hook was entered, be the
\* hook still on the layer or not
ActsAfterNoGrad(todo, x) == [acts EXCEPT ![Head(todo)] = NoGradTag(x)]

\* main.py line 167, for a model of NumClasses classes
TargetInRange(tc) == 0 <= tc /\ tc < NumClasses

\* main.py lines 123-124: the pass of a /predict request, up to the target
\* layer's output.  With no hook on the layer the pass ends and the request
\* is answered (500 when the pass raised).
PredictForward(p, x) ==
  /\ pred[p] = NoPass
  /\ weights' = WeightsAfterForward(training, weights)
  /\ pred' = [pred EXCEPT ![p] =
                IF Entered(x) = <<>> THEN NoPass
                ELSE [x |-> x, todo |-> Entered(x)]]
  /\ UNCHANGED <<training, ownerMode, paramGrad, life, acts, grads, hooks,
                 hookSeq, pc, loc, last, ncalls>>
  /\ UNCHANGED <<resolveVars, camVars, overlayVars, apiVars>>

\* cam.py lines 91-96, run by the pass of a /predict request: the fwd_hook
\* stores the output and raises; the request is answered 500
PredictHook(p) ==
  /\ pred[p].todo # <<>>
  /\ acts' = ActsAfterNoGrad(pred[p].todo, pred[p].x)
  /\ pred' = [pred EXCEPT ![p] = NoPass]
  /\ UNCHANGED <<training, ownerMode, weights, paramGrad, life, grads, hooks,
                 hookSeq, pc, loc, last, ncalls>>
  /\ UNCHANGED <<resolveVars, camVars, overlayVars, apiVars>>

\* main.py lines 152-168: the pass of a /predict_cam request, up to the
\* target layer's output.  With no hook on the layer the pass ends, and the
\* target class is settled, the top-1 class when the form gave none: the
\* request ends here when the pass raised (500) or the class is out of range
\* (400); otherwise it goes on to build engine e and call
\* get_cam(x, target_class).
PredictCamForward(e, x, tc) ==
  /\ life[e] = "new"
  /\ weights' = WeightsAfterForward(training, weights)
  /\ IF Entered(x) # <<>>
       THEN /\ life' = [life EXCEPT ![e] = "inferring"]
            /\ loc' = [loc EXCEPT ![e] =
                         [NoLocals EXCEPT !.x = x, !.todo = Entered(x)]]
     ELSE IF ForwardRaises(x) \/ (tc # NoTarget /\ ~TargetInRange(tc))
       THEN /\ life' = [life EXCEPT ![e] = "dead"]
            /\ UNCHANGED loc
       ELSE /\ life' = [life EXCEPT ![e] = "inferred"]
            /\ loc' = [loc EXCEPT ![e] =
                         [NoLocals EXCEPT
                            !.x = x,
                            !.tc = IF tc = NoTarget THEN ArgMax(Logits(x))
                                                    ELSE tc]]
  /\ UNCHANGED <<training, ownerMode, paramGrad, acts, grads, hooks, hookSeq,
                 pc, last, ncalls>>
  /\ UNCHANGED <<pred, resolveVars, camVars, overlayVars, apiVars>>

\* cam.py lines 91-96, run by the pass of a /predict_cam request: the
\* fwd_hook stores the output and raises; the request is answered 500 and
\* builds no engine
PredictCamHook(e) ==
  /\ life[e] = "inferring"
  /\ acts' = ActsAfterNoGrad(loc[e].todo, loc[e].x)
  /\ life' = [life EXCEPT ![e] = "dead"]
  /\ loc' = [loc EXCEPT ![e] = NoLocals]
  /\ UNCHANGED <<training, ownerMode, weights, paramGrad, grads, hooks,
                 hookSeq, pc, last, ncalls>>
  /\ UNCHANGED <<pred, resolveVars, camVars, overlayVars, apiVars>>

(***************************************************************************)
(* The heatmap arithmetic, get_cam lines 131-147.                          *)
(*                                                                         *)
(* A tensor element is an integer, or one of the IEEE specials, which are  *)
(* encoded by integers no finite value of the model reaches.  A captured   *)
(* tensor (batch index 0) maps a channel and a pixel <<i, j>> to an        *)
(* element.                                                                *)
(***************************************************************************)
MaxVal == 1

PInf == 9999
NInf == 0 - PInf
NaN == 99999
Specials == {PInf, NInf, NaN}
Vals == ((0 - MaxVal) .. MaxVal) \cup Specials
CoarseVals == {0 - 1, 1, PInf}

Chans == {1, 2}
Shapes == {<<1, 1>>, <<1, 2>>, <<2, 1>>}
Pix(sh) == (1 .. sh[1]) \X (1 .. sh[2])

\* the elements tried for a tensor of c channels and shape sh: every value
\* for the small tensors, a coarse choice for the largest
ElemVals(c, sh) == IF c * sh[1] * sh[2] <= 2 THEN Vals ELSE CoarseVals

IsFinite(v) == v \notin Specials

\* IEEE addition and multiplication
FAdd(a, b) ==
  IF a = NaN \/ b = NaN THEN NaN
  ELSE IF a \in {PInf, NInf} /\ b \in {PInf, NInf} THEN (IF a = b THEN a ELSE NaN)
  ELSE IF a \in {PInf, NInf} THEN a
  ELSE IF b \in {PInf, NInf} THEN b
  ELSE a + b

FSign(a) == IF a = PInf THEN 1 ELSE IF a = NInf THEN 0 - 1
            ELSE IF a > 0 THEN 1 ELSE IF a < 0 THEN 0 - 1 ELSE 0

FMul(a, b) ==
  IF a = NaN \/ b = NaN THEN NaN
  ELSE IF a \in {PInf, NInf} \/ b \in {PInf, NInf}
    THEN (IF FSign(a) * FSign(b) = 0 THEN NaN
          ELSE IF FSign(a) * FSign(b) > 0 THEN PInf ELSE NInf)
  ELSE a * b

RECURSIVE SumOverPixels(_, _)
SumOverPixels(t, S) ==
  IF S = {} THEN 0
  ELSE LET p == CHOOSE p \in S : TRUE
       IN FAdd(t[p], SumOverPixels(t, S \ {p}))

\* line 135: weights = torch.mean(grads, dim=(1, 2)).  The mean of channel c
\* is ChannelSum(g, c) / NumPix(g); the division by the pixel count is kept
\* as a common denominator of the map.
NumPix(t) == Cardinality(DOMAIN t[1])
ChannelSum(g, c) == SumOverPixels(g[c], DOMAIN g[c])

RECURSIVE WeightedSum(_, _, _, _)
WeightedSum(a, g, p, c) ==
  IF c = 0 THEN 0
  ELSE FAdd(WeightedSum(a, g, p, c - 1), FMul(ChannelSum(g, c), a[c][p]))

\* line 137: cam = torch.sum(weights[:, None, None] * acts, dim=0), times
\* the pixel count
WeightedMap(a, g) == [p \in DOMAIN a[1] |-> WeightedSum(a, g, p, Len(a))]

\* (no rectification)
NoRelu(v) == v

\* line 138: torch.relu (NaN stays NaN)
Relu(v) == IF v = NaN THEN NaN ELSE IF v = NInf \/ (v # PInf /\ v < 0) THEN 0 ELSE v

Rectified(a, g) == [p \in DOMAIN a[1] |-> Relu(WeightedMap(a, g)[p])]

\* (no finiteness test)
AnyValue(cam) == TRUE

\* torch.isfinite(cam).all()
AllFinite(cam) == \A p \in DOMAIN cam : IsFinite(cam[p])

\* cam.max()
MaxOf(cam) == CHOOSE v \in {cam[p] : p \in DOMAIN cam} :
                \A p \in DOMAIN cam : cam[p] <= v

\* a heatmap element: the real number num / (den + eps * 1e-12), where eps
\* is the pixel count the map was scaled by
Zero == [num |-> 0, den |-> 1, eps |-> 0]

\* lines 140-147: normalise by (max + 1e-12) when the map is finite and its
\* maximum positive, else zeros_like
Heatmap(a, g) ==
  LET cam == Rectified(a, g)
  IN IF AllFinite(cam) /\ MaxOf(cam) > 0
       THEN [p \in DOMAIN cam |->
               [num |-> cam[p], den |-> MaxOf(cam), eps |-> NumPix(a)]]
       ELSE [p \in DOMAIN cam |-> Zero]

\* the input tensors tried, (N, 3, H, W): the endpoint's single image and a
\* batch of larger images
InputShapes == {<<1, 3, 2, 2>>, <<2, 3, 4, 4>>}

\* acts[0], grads[0]: indexing the batch dimension drops it
BatchZero(s) == Tail(s)

\* torch.mean(grads, dim=(1, 2)) of a (C, h, w) tensor: shape (C,)
MeanOverPixels(s) == <<s[1]>>

\* weights[:, None, None]: two dimensions of size 1 appended
Unsqueezed(s) == s \o <<1, 1>>

\* broadcasting of an elementwise product of two shapes of equal length
Broadcast(s, t) == [i \in 1 .. Len(s) |-> IF s[i] = 1 THEN t[i] ELSE s[i]]

\* (a sum over the rows instead of the channels)
SumOverRows(s) == <<s[1], s[3]>>

\* torch.sum(..., dim=0) of a (C, h, w) tensor: shape (h, w)
SumOverChannels(s) == Tail(s)

\* lines 132-147, on shapes: relu, isfinite, the division by the maximum,
\* zeros_like, detach, cpu, numpy and astype all keep the shape of cam
HeatShape(d) ==
  LET a == BatchZero(d)
      g == BatchZero(d)
      w == MeanOverPixels(g)
  IN SumOverChannels(Broadcast(Unsqueezed(w), a))

NoHeat == [done |-> FALSE, map |-> <<>>, shape |-> <<>>]

\* get_cam from line 131 on, for the captured tensors camA and camG
Combine ==
  /\ ~heat.done
  /\ camA # <<>>
  /\ heat' = [done |-> TRUE, map |-> Heatmap(camA, camG),
              shape |-> HeatShape(camDims)]
  /\ UNCHANGED <<training, ownerMode, engineVars, resolveVars, camA, camG,
                 camX, camDims, overlayVars, apiVars>>

(***************************************************************************)
(* The overlay renderer, utils._rgba_heatmap_overlay, and the two          *)
(* functions that call it: GradCAM.overlay and tensor_to_base64_overlay.   *)
(*                                                                         *)
(* A heatmap element is a float32 counted in quarters (4 is 1.0, 8 is      *)
(* 2.0), or an IEEE special.  An image is a shape <<rows, columns>>, a     *)
(* mode and one tuple of 8-bit channels per pixel; an "L" image has one    *)
(* integer per pixel.                                                      *)
(***************************************************************************)
HeatVals == {0 - 4, 0, 1, 2, 3, 4, 8} \cup Specials
CoarseHeat == {0 - 4, 2, 4, 8}

\* what the float to uint8 cast of a NaN may give: undefined in C, a fixed
\* byte on a given build
NanCasts == {0, 255}

\* alpha_scale, default 192.  For these values the double product
\* v * (alpha_scale / 255.0) truncates to the integer quotient v * s / 255.
DefaultAlpha == 192
AlphaScales == {64, DefaultAlpha, 300}

Solid(sh, mode, c) == [shape |-> sh, mode |-> mode, px |-> [p \in Pix(sh) |-> c]]
NoImage == [shape |-> <<>>, mode |-> "-", px |-> <<>>]

\* heatmap_np: None, a 2-D array, or a 3-D array whose last dimension is 1
NoHeatmap == [ndim |-> 0, shape |-> <<>>, map |-> <<>>]
Heat2(sh, m) == [ndim |-> 2, shape |-> sh, map |-> m]
Heat3(sh, m) ==
  [ndim |-> 3, shape |-> sh,
   map |-> [q \in {<<p[1], p[2], 1>> : p \in Pix(sh)} |-> m[<<q[1], q[2]>>]]]
Uniform(sh, v) == [p \in Pix(sh) |-> v]

\* lines 143-144: heatmap[..., 0] of a 3-D array
Squeeze(hm) ==
  IF hm.ndim = 3 THEN [p \in Pix(hm.shape) |-> hm.map[<<p[1], p[2], 1>>]]
  ELSE hm.map

\* (a renderer that trusts its caller: no clamp)
NoClip(v) == v

\* line 146: np.clip(v, 0.0, 1.0); a NaN stays a NaN
NpClip(v) ==
  IF v = NaN THEN NaN
  ELSE IF v = NInf THEN 0
  ELSE IF v = PInf THEN 4
  ELSE IF v < 0 THEN 0
  ELSE IF v > 4 THEN 4
  ELSE v

\* line 149: (v * 255.0 + 0.5).astype(np.uint8): truncation, modulo 256; the
\* cast of a value that is not finite gives the build's byte nb
ToUint8(v, nb) ==
  IF v \in Specials THEN nb ELSE ((255 * v + 2) \div 4) % 256

Abs(i) == IF i < 0 THEN 0 - i ELSE i
Min2(a, b) == IF a < b THEN a ELSE b
Max2(a, b) == IF a > b THEN a ELSE b
Clip8(v) == IF v < 0 THEN 0 ELSE IF v > 255 THEN 255 ELSE v

(***************************************************************************)
(* line 150: Image.resize(size, resample=BILINEAR) of an "L" image, as     *)
(* Pillow computes it: one pass along the rows, then one along the         *)
(* columns, each skipped when that dimension keeps its size.  A pass from  *)
(* n pixels to m: output pixel xx (from 0) is centred on (xx + 0.5) * n/m, *)
(* the triangle filter has support max(1, n/m), its weights are normalised *)
(* to sum 1 and rounded to 22 fractional bits, and the weighted sum is     *)
(* rounded to 8 bits.  Lengths below are counted in units of 1/(2m).       *)
(***************************************************************************)
CoefOne == 4194304       \* 1 << 22

Support2(n, m) == 2 * Max2(n, m)

\* first and one-past-last input pixel under the filter
KernelMin(n, m, xx) ==
  LET num == (2 * xx + 1) * n - Support2(n, m) + m
  IN IF num < 0 THEN 0 ELSE num \div (2 * m)
KernelMax(n, m, xx) ==
  Min2(n, ((2 * xx + 1) * n + Support2(n, m) + m) \div (2 * m))

\* weight of input pixel x, before normalisation
Triangle(n, m, xx, x) ==
  Max2(0, Support2(n, m) - Abs(2 * m * x + m - (2 * xx + 1) * n))

RECURSIVE TriangleSum(_, _, _, _, _)
TriangleSum(n, m, xx, x, hi) ==
  IF x >= hi THEN 0
  ELSE Triangle(n, m, xx, x) + TriangleSum(n, m, xx, x + 1, hi)

\* the normalised weight in fixed point: (int)(0.5 + w / ww * (1 << 22))
Coef(n, m, xx, x) ==
  LET ww == TriangleSum(n, m, xx, KernelMin(n, m, xx), KernelMax(n, m, xx))
  IN (2 * Triangle(n, m, xx, x) * CoefOne + ww) \div (2 * ww)

RECURSIVE Accumulate(_, _, _, _, _, _)
Accumulate(line, n, m, xx, x, hi) ==
  IF x >= hi THEN CoefOne \div 2
  ELSE line[x + 1] * Coef(n, m, xx, x) + Accumulate(line, n, m, xx, x + 1, hi)

\* output pixel xx1 (from 1) of the pass over `line`
ResampleAt(line, n, m, xx1) ==
  IF n = m THEN line[xx1]
  ELSE Clip8(Accumulate(line, n, m, xx1 - 1, KernelMin(n, m, xx1 - 1),
                        KernelMax(n, m, xx1 - 1)) \div CoefOne)

Resize(px, sh, to) ==
  LET hor == [p \in Pix(<<sh[1], to[2]>>) |->
                ResampleAt([x \in 1 .. sh[2] |-> px[<<p[1], x>>]],
                           sh[2], to[2], p[2])]
  IN [p \in Pix(to) |->
        ResampleAt([y \in 1 .. sh[1] |-> hor[<<y, p[2]>>]],
                   sh[1], to[1], p[1])]

\* (an alpha that is the resampled intensity itself)
AlphaUnscaled(v, scale) == v

\* line 158: int(min(255, max(0, v * (alpha_scale / 255.0))))
AlphaOf(v, scale) == Min2(255, Max2(0, (v * scale) \div 255))

\* Image.convert("RGB") and Image.convert("RGBA")
ConvertRGB(img) ==
  [img EXCEPT !.mode = "RGB",
              !.px = [p \in DOMAIN img.px |-> SubSeq(img.px[p], 1, 3)]]
ConvertRGBA(img) ==
  IF img.mode = "RGBA" THEN img
  ELSE [img EXCEPT !.mode = "RGBA",
                   !.px = [p \in DOMAIN img.px |-> Append(img.px[p], 255)]]

\* Pillow's rounded division by 255: ((a >> 8) + a) >> 8
ShiftForDiv255(a) == ((a \div 256) + a) \div 256

\* line 162: Image.alpha_composite(dst, src) at one pixel, in Pillow's
\* integer arithmetic with 7 extra bits
AlphaComposite(dst, src) ==
  IF src[4] = 0 THEN dst
  ELSE LET blend == dst[4] * (255 - src[4])
           outa255 == src[4] * 255 + blend
           coef1 == (src[4] * 255 * 255 * 128) \div outa255
           coef2 == 255 * 128 - coef1
           chan(i) == ShiftForDiv255(src[i] * coef1 + dst[i] * coef2
                                      + 128 * 128) \div 128
       IN <<chan(1), chan(2), chan(3), ShiftForDiv255(outa255 + 128)>>

\* lines 143-163: _rgba_heatmap_overlay(base_rgb, heatmap, alpha_scale).
\* The result carries, next to the composited image, the resampled
\* intensity and the tint layer's alpha at every pixel.
RgbaHeatmapOverlay(base, hm, scale, nb) ==
  LET flat == Squeeze(hm)
      bytes == [p \in Pix(hm.shape) |-> ToUint8(NpClip(flat[p]), nb)]
      level == Resize(bytes, hm.shape, base.shape)
      alpha == [p \in Pix(base.shape) |-> AlphaOf(level[p], scale)]
      dst == ConvertRGBA(base)
  IN [img |-> [shape |-> base.shape, mode |-> "RGBA",
               px |-> [p \in Pix(base.shape) |->
                         AlphaComposite(dst.px[p], <<255, 0, 0, alpha[p]>>)]],
      level |-> level,
      alpha |-> alpha]

NoOutput == [done |-> FALSE, by |-> "-", kind |-> "-", rendered |-> FALSE,
             scale |-> 0, img |-> NoImage, level |-> <<>>, alpha |-> <<>>]

Rendered(by, kind, scale, r) ==
  [done |-> TRUE, by |-> by, kind |-> kind, rendered |-> TRUE, scale |-> scale,
   img |-> r.img, level |-> r.level, alpha |-> r.alpha]

\* cam.py lines 149-159: GradCAM.overlay(pil_img, heatmap_np).  The import
\* of _rgba_heatmap_overlay on lines 20-23 succeeds in this repository, so
\* line 158's branch is the one taken.  None is answered with pil_img.
Overlay ==
  /\ ~ovOut.done
  /\ ovBase.mode # "-"
  /\ IF ovHeat.ndim = 0
       THEN ovOut' = [NoOutput EXCEPT !.done = TRUE, !.by = "overlay",
                                      !.kind = "image", !.img = ovBase]
       ELSE \E nb \in NanCasts :
              ovOut' = Rendered("overlay", "image", DefaultAlpha,
                         RgbaHeatmapOverlay(ConvertRGB(ovBase), ovHeat,
                                            DefaultAlpha, nb))
  /\ UNCHANGED <<training, ownerMode, engineVars, resolveVars, camVars,
                 ovBase, ovHeat, apiVars>>

\* utils.py lines 166-188: tensor_to_base64_overlay(original_pil,
\* heatmap_np): "" for None, else the data URI of the overlay's PNG
ToBase64Overlay ==
  /\ ~ovOut.done
  /\ ovBase.mode # "-"
  /\ IF ovHeat.ndim = 0
       THEN ovOut' = [NoOutput EXCEPT !.done = TRUE, !.by = "base64",
                                      !.kind = "empty"]
       ELSE \E nb \in NanCasts :
              ovOut' = Rendered("base64", "datauri", DefaultAlpha,
                         RgbaHeatmapOverlay(
                           IF ovBase.mode # "RGB" THEN ConvertRGB(ovBase)
                                                  ELSE ovBase,
                           ovHeat, DefaultAlpha, nb))
  /\ UNCHANGED <<training, ownerMode, engineVars, resolveVars, camVars,
                 ovBase, ovHeat, apiVars>>

\* _rgba_heatmap_overlay called with an alpha_scale of the caller's choice
RenderScaled(scale) ==
  /\ ~ovOut.done
  /\ ovBase.mode # "-"
  /\ ovBase.mode = "RGB"
  /\ ovHeat.ndim # 0
  /\ \E nb \in NanCasts :
       ovOut' = Rendered("renderer", "image", scale,
                         RgbaHeatmapOverlay(ovBase, ovHeat, scale, nb))
  /\ UNCHANGED <<training, ownerMode, engineVars, resolveVars, camVars,
                 ovBase, ovHeat, apiVars>>

\* the images and heatmaps tried
Black == <<0, 0, 0>>
White == <<255, 255, 255>>
Teal == <<10, 200, 30>>
BaseShapes == {<<1, 1>>, <<2, 2>>, <<2, 4>>, <<4, 4>>}
GrayBases == {Solid(<<1, 1>>, "RGB", <<g, g, g>>) : g \in 0 .. 255}
ColourBases ==
  {Solid(sh, "RGB", Black) : sh \in BaseShapes}
  \cup {Solid(<<2, 2>>, "RGB", c) : c \in {White, Teal}}
  \cup {Solid(<<2, 2>>, "RGBA", <<10, 200, 30, 100>>)}
PointHeats == {Heat2(<<1, 1>>, Uniform(<<1, 1>>, v)) : v \in HeatVals}
GrayHeats == {NoHeatmap} \cup {Heat2(<<1, 1>>, Uniform(<<1, 1>>, v)) : v \in {2, 4}}
Heats ==
  {NoHeatmap} \cup PointHeats
    \cup {Heat2(<<1, 2>>, m) : m \in [Pix(<<1, 2>>) -> HeatVals]}
    \cup {Heat2(<<2, 1>>, m) : m \in [Pix(<<2, 1>>) -> HeatVals]}
    \cup {Heat2(<<2, 2>>, m) : m \in [Pix(<<2, 2>>) -> CoarseHeat]}
    \cup {Heat2(<<1, 4>>, m) : m \in [Pix(<<1, 4>>) -> {0, 4}]}
    \cup {Heat2(<<4, 4>>, Uniform(<<4, 4>>, v)) : v \in HeatVals}
    \cup {Heat3(<<1, 2>>, m) : m \in [Pix(<<1, 2>>) -> CoarseHeat]}

(***************************************************************************)
(* The endpoints of main.py.  A request is an upload, the form field       *)
(* target_class (predict_cam) and what the model does with the image: the  *)
(* logits it returns and how its layers react (an input kind of the        *)
(* engine's model above).  The list CHEXNET_LABELS and the model's output  *)
(* (model_loader.NUM_CLASSES) both have 14 entries in the program and      *)
(* NumLabels entries here; a label is named by its index.                  *)
(***************************************************************************)
NumLabels == 3
Labels == 0 .. (NumLabels - 1)

\* the form field target_class: absent, or an integer; -1 and NumLabels are
\* the nearest integers out of range
ApiTargets == {NoTarget} \cup ((0 - 1) .. NumLabels)

Uploads == {"png", "dicom", "empty", "garbage"}

\* _read_image_from_upload returns an image; otherwise it raises
\* HTTPException(400)
Readable(u) == u \in {"png", "dicom"}

\* a logit: a float32, 20 being large enough for sigmoid to round to 1.0
LogitVals == {NInf, 0, 1, 20, PInf, NaN}

\* torch.sigmoid in float32, in thousandths
Sigmoid(l) ==
  CASE l = NaN -> NaN
    [] l = NInf -> 0
    [] l = PInf -> 1000
    [] l = 0 - 1 -> 269
    [] l = 0 -> 500
    [] l = 1 -> 731
    [] OTHER -> IF l < 0 THEN 0 ELSE 1000

Probs(logits) == [k \in DOMAIN logits |-> Sigmoid(logits[k])]

\* lines 128-131: one entry per pair of zip(CHEXNET_LABELS, probs_list)
Preds(probs) ==
  [i \in 1 .. Min2(NumLabels, Cardinality(DOMAIN probs)) |->
     [label |-> i - 1, probability |-> probs[i - 1]]]

\* float.__lt__ on two probabilities: False whenever one of them is a NaN
FloatLt(a, b) == a # NaN /\ b # NaN /\ a < b

Reversed(s) == [i \in 1 .. Len(s) |-> s[Len(s) + 1 - i]]

\* The order sorted() gives a list holding a NaN is that of the comparisons
\* list.sort happens to make, which differ between the interpreters the
\* program runs on (Python 3.10+): count_run was rewritten in CPython 3.13.
PyBuilds == {"3.12", "3.13"}

\* the last index of the run that goes on from index i, a run being
\* non-descending, or strictly descending (desc)
RECURSIVE RunEnd(_, _, _)
RunEnd(s, i, desc) ==
  IF i = Len(s) THEN i
  ELSE IF FloatLt(s[i + 1].probability, s[i].probability) = desc
    THEN RunEnd(s, i + 1, desc)
  ELSE i

\* s with its entries lo .. hi in reverse order
ReversedSlice(s, lo, hi) ==
  [i \in 1 .. Len(s) |-> IF lo <= i /\ i <= hi THEN s[lo + hi - i] ELSE s[i]]

\* count_run up to CPython 3.12: the run that starts the list is
\* non-descending, or strictly descending and then reversed
CountRun312(s) ==
  LET desc == FloatLt(s[2].probability, s[1].probability)
      n == RunEnd(s, 2, desc)
  IN [n |-> n, s |-> IF desc THEN ReversedSlice(s, 1, n) ELSE s]

\* count_run from CPython 3.13, REVERSE_LAST_NEQ: of the first n entries the
\* last neq + 1, found equal, are reversed
ReverseLastNeq(s, n, neq) ==
  IF neq = 0 THEN s ELSE ReversedSlice(s, n - neq, n)

\* count_run from CPython 3.13, the descending run: a neighbour that is
\* neither smaller nor larger counts as equal and stays in the run
RECURSIVE DescendingRun(_, _, _)
DescendingRun(s, n, neq) ==
  IF n = Len(s) THEN [n |-> n, s |-> ReverseLastNeq(s, n, neq)]
  ELSE IF FloatLt(s[n + 1].probability, s[n].probability)
    THEN DescendingRun(ReverseLastNeq(s, n, neq), n + 1, 0)
  ELSE IF FloatLt(s[n].probability, s[n + 1].probability)
    THEN [n |-> n, s |-> ReverseLastNeq(s, n, neq)]
  ELSE DescendingRun(s, n + 1, neq + 1)

\* count_run from CPython 3.13: a non-descending run; or, when that run is
\* of entries none of which is less than another, it and the descending
\* run behind it, reversed, with the non-descending run that follows
CountRun313(s) ==
  LET up == RunEnd(s, 1, FALSE)
  IN IF up = Len(s) THEN [n |-> up, s |-> s]
     ELSE IF up > 1 /\ FloatLt(s[1].probability, s[up].probability)
       THEN [n |-> up, s |-> s]
     ELSE LET down == DescendingRun(ReversedSlice(s, 1, up), up + 1, 0)
              turned == ReversedSlice(down.s, 1, down.n)
          IN [n |-> RunEnd(turned, down.n, FALSE), s |-> turned]

\* list.sort's binarysort, the search: the index in lo .. hi at which the
\* pivot goes, behind every entry it is not less than
RECURSIVE InsertionPoint(_, _, _, _)
InsertionPoint(s, pivot, lo, hi) ==
  IF lo >= hi THEN lo
  ELSE LET mid == lo + ((hi - lo) \div 2)
       IN IF FloatLt(pivot.probability, s[mid].probability)
            THEN InsertionPoint(s, pivot, lo, mid)
            ELSE InsertionPoint(s, pivot, mid + 1, hi)

\* list.sort's binarysort: the entries from index start on are inserted, one
\* by one, into the sorted entries before them
RECURSIVE BinarySort(_, _)
BinarySort(s, start) ==
  IF start > Len(s) THEN s
  ELSE LET at == InsertionPoint(s, s[start], 1, start)
       IN BinarySort(SubSeq(s, 1, at - 1) \o <<s[start]>>
                       \o SubSeq(s, at, start - 1)
                       \o SubSeq(s, start + 1, Len(s)),
                     start + 1)

\* list.sort on a list shorter than 64 entries: the run that starts the
\* list, then binary insertion of the rest
ListSort(s, py) ==
  IF Len(s) < 2 THEN s
  ELSE LET run == IF py = "3.13" THEN CountRun313(s) ELSE CountRun312(s)
       IN BinarySort(run.s, run.n + 1)

\* line 132: sorted(preds, key=probability, reverse=True): the list is
\* reversed, sorted in ascending order and reversed again, so that entries
\* of equal probability keep the order of the labels; the comparisons being
\* float's, a NaN compares less than nothing and nothing less than it
SortedDesc(preds, py) == Reversed(ListSort(Reversed(preds), py))

HasNaN(probs) == \E k \in DOMAIN probs : probs[k] = NaN

\* line 165: int(np.argmax(probs)): the first maximum; a NaN counts as the
\* maximum
NpArgMax(p) ==
  IF HasNaN(p)
    THEN CHOOSE k \in DOMAIN p :
           p[k] = NaN /\ \A j \in DOMAIN p : j < k => p[j] # NaN
    ELSE CHOOSE k \in DOMAIN p :
           /\ \A j \in DOMAIN p : p[j] <= p[k]
           /\ \A j \in DOMAIN p : j < k => p[j] < p[k]

\* (no validation)
AnyTarget(tc) == TRUE

\* line 167: 0 <= int(target_class) < len(CHEXNET_LABELS)
ValidTarget(tc) == 0 <= tc /\ tc < NumLabels

NoRequest == [ep |-> "-", upload |-> "-", tc |-> NoTarget, x |-> "-",
              logits |-> <<>>]
NoResponse == [done |-> FALSE, status |-> 0, why |-> "-", predictions |-> <<>>,
               cam |-> "-", engines |-> 0, hooks |-> 0, camArg |-> NoTarget,
               explained |-> NoTarget]

Answer(status, why) ==
  [NoResponse EXCEPT !.done = TRUE, !.status = status, !.why = why]

\* What the server makes of a NaN in the dict a handler returns.  The
\* handlers return the dict as it is (lines 133 and 178); its encoding as
\* JSON is the web framework's, outside the handlers' try, and depends on
\* the framework installed: the encoder raises, and the request is answered
\* 500, or it writes the NaN as null in a 200 answer.
JsonEncodings == {"raises", "null"}

\* the answer to a request whose handler returned r; a probability NaN in
\* an answer of status 200 stands for the null sent in its place
Respond(r, probs, enc) ==
  IF HasNaN(probs) /\ enc = "raises"
    THEN [r EXCEPT !.status = 500, !.why = "not JSON compliant",
                   !.predictions = <<>>, !.cam = "-"]
    ELSE r

\* lines 114-137: POST /predict
Predict ==
  /\ apiReq.ep = "predict"
  /\ ~apiResp.done
  /\ \E enc \in JsonEncodings, py \in PyBuilds :
       apiResp' =
         IF ~Readable(apiReq.upload) THEN Answer(400, "Invalid image/DICOM")
         ELSE IF ForwardRaises(apiReq.x) THEN Answer(500, "Prediction failed")
         ELSE LET probs == Probs(apiReq.logits)
              IN Respond([Answer(200, "ok") EXCEPT
                            !.predictions = SortedDesc(Preds(probs), py)],
                         probs, enc)
  /\ weights' = IF Readable(apiReq.upload)
                  THEN WeightsAfterForward(training, weights) ELSE weights
  /\ UNCHANGED <<training, ownerMode, paramGrad, life, acts, grads, hooks,
                 hookSeq, pc, loc, last, ncalls, pred>>
  /\ UNCHANGED <<resolveVars, camVars, overlayVars, apiReq>>

\* get_cam(x, target_class=c) on the engine the request built, no other
\* request running: the verdict on what its own two hooks captured
CamVerdict(x, c) ==
  CaptureVerdict(IF Reaches(x) THEN ActTag(1, x) ELSE NoCapture,
                 IF GradReaches(x, PyIndex(c))
                   THEN GradTag(1, x, PyIndex(c)) ELSE NoCapture)

\* lines 163-178: the target class, the engine, get_cam, the overlay
Explain(probs, preds, enc) ==
  LET given == apiReq.tc # NoTarget
      target == IF given THEN apiReq.tc ELSE NpArgMax(probs)
      built == ResolveLayer(mdl, NoPath)
      verdict == CamVerdict(apiReq.x, target)
  IN IF given /\ ~ValidTarget(apiReq.tc)
       THEN Answer(400, "target_class out of range")
     ELSE IF built.status # "ok"
       THEN [Answer(500, "Predict+CAM failed") EXCEPT !.engines = 1]
     ELSE Respond([Answer(200, "ok") EXCEPT
                     !.predictions = preds,
                     !.engines = 1,
                     !.hooks = 1,
                     !.camArg = target,
                     !.explained = PyIndex(PickClass(target, apiReq.x)),
                     !.cam = IF verdict = "ok" THEN "datauri" ELSE "None"],
                  probs, enc)

\* lines 140-183: POST /predict_cam
PredictCam ==
  /\ apiReq.ep = "predict_cam"
  /\ ~apiResp.done
  /\ \E enc \in JsonEncodings, py \in PyBuilds :
       apiResp' =
         IF ~Readable(apiReq.upload) THEN Answer(400, "Invalid image/DICOM")
         ELSE IF ForwardRaises(apiReq.x)
           THEN Answer(500, "Predict+CAM failed")
         ELSE LET probs == Probs(apiReq.logits)
              IN Explain(probs, SortedDesc(Preds(probs), py), enc)
  /\ weights' = IF Readable(apiReq.upload)
                  THEN WeightsAfterForward(training, weights) ELSE weights
  /\ training' = IF apiResp'.engines > 0 THEN ModeAfterInit(training)
                                          ELSE training
  \* get_cam registers and removes its hook (hooks), and between the two
  \* runs cam.py lines 109-112, which leave gradients on the parameters
  /\ paramGrad' = IF apiResp'.hooks > 0 THEN TRUE ELSE paramGrad
  /\ UNCHANGED <<ownerMode, life, acts, grads, hooks, hookSeq, pc, loc, last,
                 ncalls, pred>>
  /\ UNCHANGED <<resolveVars, camVars, overlayVars, apiReq>>

\* the requests that carry upload u, form field tc, and meet a model that
\* reacts as x and returns the logits l: /predict takes no form field, and
\* only whether its forward pass raises matters to it
ApiRequests(u, tc, x, l) ==
  {[ep |-> "predict_cam", upload |-> u, tc |-> tc, x |-> x, logits |-> l]}
  \cup (IF tc = NoTarget /\ x \in {"img", "bad"}
          THEN {[ep |-> "predict", upload |-> u, tc |-> tc, x |-> x,
                 logits |-> l]}
          ELSE {})

(***************************************************************************)
(* Initial states and specifications.                                      *)
(***************************************************************************)
ResolveIdle == mdl = AppModel /\ req = NoPath /\ tgt = Unbuilt
CamIdle ==
  camA = <<>> /\ camG = <<>> /\ camX = <<>> /\ camDims = <<>> /\ heat = NoHeat
OverlayIdle == ovBase = NoImage /\ ovHeat = NoHeatmap /\ ovOut = NoOutput
ApiIdle == apiReq = NoRequest /\ apiResp = NoResponse

Init ==
  /\ ownerMode \in {"train", "eval"}
  /\ EnginesIdle
  /\ ResolveIdle
  /\ CamIdle
  /\ OverlayIdle
  /\ ApiIdle

\* the application after startup: the loader has put its model in eval mode,
\* no request has arrived
InitConc ==
  /\ ownerMode = "eval"
  /\ EnginesIdle
  /\ ResolveIdle
  /\ CamIdle
  /\ OverlayIdle
  /\ ApiIdle

InitResolve ==
  /\ ownerMode = "eval"
  /\ EnginesIdle
  /\ mdl \in Models
  /\ req \in Requests
  /\ tgt = Unbuilt
  /\ CamIdle
  /\ OverlayIdle
  /\ ApiIdle

InitCam ==
  /\ ownerMode = "eval"
  /\ EnginesIdle
  /\ ResolveIdle
  /\ camX \in InputShapes
  /\ \E c \in Chans, sh \in Shapes :
       /\ camA \in [1 .. c -> [Pix(sh) -> ElemVals(c, sh)]]
       /\ camG \in [1 .. c -> [Pix(sh) -> ElemVals(c, sh)]]
       /\ camDims = <<camX[1], c, sh[1], sh[2]>>
  /\ heat = NoHeat
  /\ OverlayIdle
  /\ ApiIdle

\* an overlay function is handed a base image and a heatmap
InitOverlay ==
  /\ ownerMode = "eval"
  /\ EnginesIdle
  /\ ResolveIdle
  /\ CamIdle
  /\ \/ ovBase \in GrayBases /\ ovHeat \in GrayHeats
     \/ ovBase \in ColourBases /\ ovHeat \in Heats
  /\ ovOut = NoOutput
  /\ ApiIdle

\* a request arrives at the application, its model loaded in eval mode
InitApi ==
  /\ ownerMode = "eval"
  /\ EnginesIdle
  /\ ResolveIdle
  /\ CamIdle
  /\ OverlayIdle
  /\ \E u \in Uploads, tc \in ApiTargets, x \in Inputs,
        l \in [Labels -> LogitVals] : apiReq \in ApiRequests(u, tc, x, l)
  /\ apiResp = NoResponse

NextResolve == InitWithPath \/ InitAuto
SpecResolve == InitResolve /\ [][NextResolve]_vars

NextCam == Combine
SpecCam == InitCam /\ [][NextCam]_vars

NextOverlay ==
  \/ Overlay
  \/ ToBase64Overlay
  \/ \E s \in AlphaScales : RenderScaled(s)
SpecOverlay == InitOverlay /\ [][NextOverlay]_vars

NextApi == Predict \/ PredictCam
SpecApi == InitApi /\ [][NextApi]_vars

(***************************************************************************)
(* Calls issued one after another, on either engine.                       *)
(***************************************************************************)
Next ==
  \/ \E e \in Engines : NoCallInProgress /\ Construct(e, FALSE)
  \/ \E e \in Engines, x \in Inputs, tc \in TargetChoices : Clear(e, x, tc, TRUE)
  \/ \E e \in Engines : Register(e)
  \/ \E e \in Engines : Forward(e)
  \/ \E e \in Engines : RunHook(e)
  \/ \E e \in Engines : ForwardEnd(e, FALSE)
  \/ \E e \in Engines : Pick(e)
  \/ \E e \in Engines : ZeroGrad(e)
  \/ \E e \in Engines : Backward(e, FALSE)
  \/ \E e \in Engines : RunGradHook(e)
  \/ \E e \in Engines : BackwardEnd(e)
  \/ \E e \in Engines : Release(e)
  \/ \E e \in Engines : Finish(e, FALSE)

Spec == Init /\ [][Next]_vars

(***************************************************************************)
(* The application's requests, run on pool threads with no lock.  A        *)
(* /predict request runs its prediction pass; a /predict_cam request runs  *)
(* its own, then constructs its own engine on the shared model and calls   *)
(* get_cam once.  A thread may be preempted between any two steps.         *)
(***************************************************************************)
NextConc ==
  \/ \E p \in Predictors, x \in Inputs : PredictForward(p, x)
  \/ \E p \in Predictors : PredictHook(p)
  \/ \E e \in Engines, x \in Inputs, tc \in TargetChoices :
       PredictCamForward(e, x, tc)
  \/ \E e \in Engines : PredictCamHook(e)
  \/ \E e \in Engines : Construct(e, TRUE)
  \/ \E e \in Engines, x \in Inputs, tc \in TargetChoices : Clear(e, x, tc, FALSE)
  \/ \E e \in Engines : Register(e)
  \/ \E e \in Engines : Forward(e)
  \/ \E e \in Engines : RunHook(e)
  \/ \E e \in Engines : ForwardEnd(e, TRUE)
  \/ \E e \in Engines : Pick(e)
  \/ \E e \in Engines : ZeroGrad(e)
  \/ \E e \in Engines : Backward(e, TRUE)
  \/ \E e \in Engines : RunGradHook(e)
  \/ \E e \in Engines : BackwardEnd(e)
  \/ \E e \in Engines : Release(e)
  \/ \E e \in Engines : Finish(e, TRUE)

SpecConc == InitConc /\ [][NextConc]_vars

(***************************************************************************)
(* Properties of get_cam.                                                  *)
(***************************************************************************)

\* C1: between calls (no get_cam in progress) no forward hook of any engine
\* is attached to the target layer.  get_cam removes its hook on line 116
\* only, which an exception raised on lines 102-112 never reaches.
C1_NoHooksBetweenCalls ==
  NoCallInProgress => \A e \in Engines : hooks[e] = 0

\* C2: with one engine per request and no lock, the tensors an engine
\* combines into its heatmap are those of its own forward and backward pass.
\* Another request's forward pass runs every hook on the shared layer, this
\* engine's included.
C2_OwnCaptures ==
  last.kind = "heatmap" => last.acts.n = last.n /\ last.grads.n = last.n

\* C3: calls issued one after another: a returned heatmap is combined from
\* the activation of this call's forward pass on this call's input and the
\* gradient of this call's backward pass for this call's class, whatever the
\* earlier calls did (succeeded, failed, raised and left their hook behind).
C3_HistoryFree ==
  last.kind = "heatmap" =>
    /\ last.acts = ActTag(last.n, last.x)
    /\ last.grads = GradTag(last.n, last.x, PyIndex(last.cls))

\* a heatmap returned by an engine that still has a hook of an earlier,
\* raised call on the layer
C3_Witness ==
  /\ last.kind = "heatmap"
  /\ last.n > 1
  /\ hooks[last.eng] > 0

\* C4: constructing an engine and running get_cam leave the model's mode
\* flag as its owner set it, and leave its parameters and buffers alone.
\* The constructor calls model.eval() on the owner's model (line 39).
C4_ModePreserved ==
  /\ training = (ownerMode = "train")
  /\ weights = 0

\* C5: a heatmap is returned only from two populated buffers holding
\* 4-dimensional tensors; a missing capture ends the call with None for
\* CaptureMissing, another rank with None for UnexpectedTensorRank.
C5_StructuralChecks ==
  LET missing == last.acts = NoCapture \/ last.grads = NoCapture
      rank4 == Rank(last.acts.x) = 4 /\ Rank(last.grads.x) = 4
  IN /\ last.kind = "heatmap" => ~missing /\ rank4
     /\ last.kind \in {"heatmap", "none"} /\ missing =>
          last.kind = "none" /\ last.why = "CaptureMissing"
     /\ last.kind \in {"heatmap", "none"} /\ ~missing /\ ~rank4 =>
          last.kind = "none" /\ last.why = "UnexpectedTensorRank"

\* a call that captured tensors of rank 3 and ended with None
C5_Witness ==
  /\ last.kind = "none"
  /\ last.acts # NoCapture /\ last.grads # NoCapture
  /\ Rank(last.acts.x) = 3

\* C10: once the class is decided it is, with no target supplied, an index
\* of the maximum of this call's logits, and otherwise the supplied value
\* itself, in range or not; the gradient this call's backward pass deposits
\* is the one of that class's score.
C10_SeedClass ==
  \A e \in Engines :
    pc[e] \in {"picked", "zeroed", "backwarding", "backwarded", "released"} =>
      /\ loc[e].tc = NoTarget =>
           /\ loc[e].cls \in Classes
           /\ \A j \in Classes : Logits(loc[e].x)[j] <= Logits(loc[e].x)[loc[e].cls]
      /\ loc[e].tc # NoTarget => loc[e].cls = loc[e].tc
      /\ (pc[e] \in {"backwarded", "released"} /\ grads[e].n = loc[e].n) =>
           grads[e].k = PyIndex(loc[e].cls)

\* a backward pass seeded from the top-1 class, the last one
C10_Witness ==
  \E e \in Engines :
    /\ pc[e] = "backwarded"
    /\ grads[e].n = loc[e].n
    /\ loc[e].tc = NoTarget
    /\ loc[e].cls = NumClasses - 1

(***************************************************************************)
(* Properties of the heatmap arithmetic (SpecCam).                         *)
(***************************************************************************)

\* the real number an element stands for lies in [0, 1]
InUnit(el) ==
  /\ IsFinite(el.num) /\ IsFinite(el.den)
  /\ el.den > 0 /\ el.eps >= 0
  /\ 0 <= el.num /\ el.num <= el.den

\* C6: every element of a returned heatmap lies in [0, 1], whatever the
\* signs and magnitudes (infinite and NaN included) of the captured tensors.
C6_RangeInvariant ==
  heat.done => \A p \in DOMAIN heat.map : InUnit(heat.map[p])

\* a heatmap with an element at the maximum, from a gradient with a negative
\* element
C6_Witness ==
  /\ heat.done
  /\ \E p \in DOMAIN heat.map : heat.map[p].num = heat.map[p].den
  /\ \E c \in DOMAIN camG : \E p \in DOMAIN camG[c] : camG[c][p] < 0

\* C7: when the rectified weighted sum has no positive element or holds a
\* non-finite one, get_cam returns a map over the same pixels, all 0.0.
C7_DegenerateIsZero ==
  LET cam == Rectified(camA, camG)
      degenerate == \/ \E p \in DOMAIN cam : ~IsFinite(cam[p])
                    \/ \A p \in DOMAIN cam : IsFinite(cam[p]) /\ cam[p] <= 0
  IN heat.done /\ degenerate =>
       /\ DOMAIN heat.map = DOMAIN camA[1]
       /\ \A p \in DOMAIN heat.map : heat.map[p].num = 0 /\ heat.map[p].den > 0

\* a zero map returned for a weighted sum that holds a NaN beside a
\* positive element
C7_Witness ==
  /\ heat.done
  /\ \E p \in DOMAIN heat.map : Rectified(camA, camG)[p] = NaN
  /\ \E p \in DOMAIN heat.map :
       IsFinite(Rectified(camA, camG)[p]) /\ Rectified(camA, camG)[p] > 0
  /\ \A p \in DOMAIN heat.map : heat.map[p] = Zero

(***************************************************************************)
(* Properties of target layer resolution (SpecResolve).                    *)
(***************************************************************************)

\* the object a path leads to in the tree, Missing if a segment is no
\* attribute of the object before it
RECURSIVE Reached(_, _)
Reached(obj, parts) ==
  IF parts = <<>> \/ obj.kind = "missing" THEN obj
  ELSE Reached(GetAttr(obj, Head(parts)), Tail(parts))

\* C8 as claimed: a path with a missing segment fails with LayerNotFound;
\* a path whose segments all exist makes the object it reaches the target.
C8_PathVerbatim ==
  (tgt # Unbuilt /\ req.given) =>
    IF Reached(Root(mdl), req.segs).kind = "missing"
      THEN tgt.status = "LayerNotFound"
      ELSE tgt.status = "ok" /\ tgt.target = Reached(Root(mdl), req.segs)

\* C8, amended: a path with a missing segment, and also a path that leads
\* to an attribute whose value is None, fails with LayerNotFound and selects
\* nothing; any other path makes the object it reaches the target, module
\* or not.
C8_PathResolution ==
  (tgt # Unbuilt /\ req.given) =>
    IF Reached(Root(mdl), req.segs).kind \in {"missing", "None"}
      THEN tgt.status = "LayerNotFound" /\ tgt.target = PyNone
      ELSE tgt.status = "ok" /\ tgt.target = Reached(Root(mdl), req.segs)

\* LayerNotFound for a missing segment on a model where auto-selection
\* would have found a layer
C8_Witness ==
  /\ req.given
  /\ tgt.status = "LayerNotFound"
  /\ Reached(Root(mdl), req.segs).kind = "missing"
  /\ \E i \in 1 .. Len(mdl) : mdl[i].kind = "conv"

\* the paths of the tree's Conv2d modules, and their definition order
TreePaths ==
  LET r == {"stem", "features", "head"}
  IN {<<a>> : a \in r} \cup {<<a, b>> : a \in r, b \in KidNames \cup {"conv"}}
       \cup {<<a, b, "conv">> : a \in r, b \in KidNames}
ConvPaths(m) == {p \in TreePaths : Reached(Root(m), p).kind = "conv"}
RootPos(m, p) == CHOOSE i \in 1 .. Len(m) : m[i].name = p[1]
KidPos(p) ==
  IF Len(p) >= 2 /\ p[2] \in KidNames
    THEN CHOOSE i \in 1 .. MaxKids : NameList[i] = p[2] ELSE 0
DefinedBefore(m, p, q) ==
  \/ RootPos(m, p) < RootPos(m, q)
  \/ RootPos(m, p) = RootPos(m, q) /\ KidPos(p) < KidPos(q)

\* C9: auto-selection takes the Conv2d defined last under features; with no
\* Conv2d there (or no module features) the Conv2d defined last in the whole
\* model; with none at all it fails with NoTargetLayerFound.
C9_AutoSelectsLastConv ==
  (tgt # Unbuilt /\ ~req.given) =>
    LET under == {p \in ConvPaths(mdl) : p[1] = "features"}
        pool == IF under # {} THEN under ELSE ConvPaths(mdl)
    IN IF pool = {}
         THEN tgt.status = "NoTargetLayerFound"
         ELSE /\ tgt.status = "ok"
              /\ tgt.target.kind = "conv"
              /\ tgt.target.path \in pool
              /\ \A q \in pool \ {tgt.target.path} :
                   DefinedBefore(mdl, q, tgt.target.path)

\* features holds the Conv2d A, B, C and C is selected, not head's Conv2d
C9_Witness ==
  /\ ~req.given
  /\ tgt.status = "ok"
  /\ tgt.target.path = <<"features", "C">>
  /\ \E i \in 1 .. Len(mdl) : mdl[i].kids = <<"conv", "conv", "conv">>
  /\ \E i \in 1 .. Len(mdl) : mdl[i].name = "head" /\ mdl[i].kind = "conv"

(***************************************************************************)
(* Properties of the returned map's shape.                                 *)
(***************************************************************************)

\* C11: a returned heatmap is 2-D and has exactly the spatial dimensions
\* (h, w) of the target layer's output: its shape is (h, w) and it has one
\* element per pixel of the layer's output, whatever the input tensor's
\* resolution, its batch size and the layer's channel count.
C11_ShapeIsLayerShape ==
  heat.done =>
    /\ heat.shape = <<camDims[3], camDims[4]>>
    /\ DOMAIN heat.map = Pix(heat.shape)

\* a heatmap of a batch of two, from a two-channel layer whose 1 x 2 output
\* is smaller than the 4 x 4 input
C11_Witness ==
  /\ heat.done
  /\ camX = <<2, 3, 4, 4>>
  /\ camDims = <<2, 2, 1, 2>>
  /\ heat.shape = <<1, 2>>
  /\ \E p \in DOMAIN heat.map : heat.map[p].num > 0

(***************************************************************************)
(* Properties of the overlay functions.                                    *)
(***************************************************************************)

\* the blend of tint value t at alpha a / 255 over base value b, rounded to
\* the nearest integer
BlendOver(t, a, b) == (2 * (t * a + b * (255 - a)) + 255) \div 510

AllOnes(hm) ==
  hm.ndim # 0 /\ \A p \in Pix(hm.shape) : Squeeze(hm)[p] = 4

\* C12: a heatmap whose every value is 1.0, rendered with the default
\* alpha_scale of 192 over a base image: every pixel of the result is the
\* blend of (255, 0, 0) at alpha 192 / 255 over the base pixel, with alpha
\* 255; over a 4 x 4 black image all 16 pixels are (192, 0, 0, 255).
C12_AllOnesBlend ==
  (ovOut.done /\ ovOut.rendered /\ ovOut.scale = DefaultAlpha /\ AllOnes(ovHeat)) =>
    /\ \A p \in Pix(ovBase.shape) :
         ovOut.img.px[p] = <<BlendOver(255, 192, ovBase.px[p][1]),
                             BlendOver(0, 192, ovBase.px[p][2]),
                             BlendOver(0, 192, ovBase.px[p][3]),
                             255>>
    /\ (ovBase.shape = <<4, 4>> /\ ovBase.px[<<1, 1>>] = Black) =>
         /\ Cardinality(DOMAIN ovOut.img.px) = 16
         /\ \A p \in DOMAIN ovOut.img.px : ovOut.img.px[p] = <<192, 0, 0, 255>>

\* the 4 x 4 heatmap of ones rendered over the 4 x 4 black image
C12_Witness ==
  /\ ovOut.done
  /\ ovOut.rendered
  /\ ovOut.scale = DefaultAlpha
  /\ ovHeat = Heat2(<<4, 4>>, Uniform(<<4, 4>>, 4))
  /\ ovBase = Solid(<<4, 4>>, "RGB", Black)
  /\ ovOut.img.px[<<4, 4>>] = <<192, 0, 0, 255>>

\* C13: for every heatmap handed to the renderer, values below 0, above 1
\* and not finite included: the tint layer's alpha is in [0, alpha_scale] at
\* every pixel; it is non-decreasing in the resampled intensity, and, where
\* the heatmap has the base image's size, in the clamped heatmap value; the
\* composited image has the base image's shape and alpha 255 everywhere.
C13_AlphaBoundedMonotoneOpaque ==
  (ovOut.done /\ ovOut.rendered) =>
    LET pix == Pix(ovBase.shape)
        hm == Squeeze(ovHeat)
    IN /\ DOMAIN ovOut.alpha = pix
       /\ \A p \in pix : 0 <= ovOut.alpha[p] /\ ovOut.alpha[p] <= ovOut.scale
       /\ \A p, q \in pix :
            ovOut.level[p] <= ovOut.level[q] => ovOut.alpha[p] <= ovOut.alpha[q]
       /\ ovHeat.shape = ovBase.shape =>
            \A p, q \in pix :
              (hm[p] # NaN /\ hm[q] # NaN /\ NpClip(hm[p]) <= NpClip(hm[q]))
                => ovOut.alpha[p] <= ovOut.alpha[q]
       /\ ovOut.img.shape = ovBase.shape
       /\ DOMAIN ovOut.img.px = pix
       /\ \A p \in pix : Len(ovOut.img.px[p]) = 4 /\ ovOut.img.px[p][4] = 255

\* a 2 x 2 heatmap holding -1.0, 0.5 and 2.0, rendered over a 2 x 2 image
\* that came with an alpha channel: the alpha runs from 0 to the cap
C13_Witness ==
  /\ ovOut.done
  /\ ovOut.rendered
  /\ ovHeat.shape = <<2, 2>>
  /\ ovBase.mode = "RGBA"
  /\ \E p, q, r \in Pix(<<2, 2>>) :
       /\ ovHeat.map[p] = 0 - 4 /\ ovOut.alpha[p] = 0
       /\ ovHeat.map[q] = 2 /\ ovOut.alpha[q] = 96
       /\ ovHeat.map[r] = 8 /\ ovOut.alpha[r] = DefaultAlpha
  /\ \A p \in Pix(<<2, 2>>) : ovOut.img.px[p][4] = 255

\* C14: every function handed None for the heatmap reports that there is
\* no overlay (None, or the empty string) and returns no image; the renderer
\* is not run.  GradCAM.overlay returns the base image instead.
C14_AbsencePropagated ==
  (ovOut.done /\ ovHeat.ndim = 0) =>
    /\ ~ovOut.rendered
    /\ ovOut.kind \in {"empty", "None"}
    /\ ovOut.img.mode = "-"

(***************************************************************************)
(* Properties of the endpoints.                                            *)
(***************************************************************************)

\* the model answered the request's image with logits that sigmoid maps to
\* numbers
\* what C15 asks of the predictions of a 200 answer
PredictionsInOrder(ps) ==
  /\ Len(ps) = NumLabels
  /\ \A k \in Labels : \E i \in 1 .. Len(ps) : ps[i].label = k
  /\ \A i \in 1 .. Len(ps) :
       0 <= ps[i].probability /\ ps[i].probability <= 1000
  /\ \A i, j \in 1 .. Len(ps) :
       i < j => ps[i].probability >= ps[j].probability

\* C15: POST /predict.  An upload that cannot be read, or is empty, is
\* answered 400.  A readable image is answered 200 with one prediction per
\* label (NumLabels of them, 14 in the program), each with its label and a
\* probability in [0, 1], in order of non-increasing probability, unless
\* something fails, which is answered 500.  The handler returns a NaN
\* probability as it is, in a list that sorted() leaves out of order.
C15_PredictContract ==
  (apiResp.done /\ apiReq.ep = "predict") =>
    IF ~Readable(apiReq.upload) THEN apiResp.status = 400
    ELSE IF ForwardRaises(apiReq.x) THEN apiResp.status = 500
    ELSE /\ apiResp.status \in {200, 500}
         /\ apiResp.status = 200 => PredictionsInOrder(apiResp.predictions)

\* C16: POST /predict_cam with a target_class outside [0, NumLabels - 1].
\* No GradCAM engine is constructed, no hook is attached and get_cam is not
\* called; the answer is the 400 of the range check whenever the handler
\* gets as far as the check (it is the 400 of the upload when the upload is
\* unreadable, and 500 only when the forward pass before the check raised).
\* So every get_cam call of the endpoint carries an index in range.
C16_RejectedBeforeEngine ==
  (apiResp.done /\ apiReq.ep = "predict_cam") =>
    /\ (apiReq.tc # NoTarget /\ apiReq.tc \notin Labels) =>
         /\ apiResp.engines = 0
         /\ apiResp.hooks = 0
         /\ apiResp.camArg = NoTarget
         /\ apiResp.cam = "-"
         /\ apiResp.status =
              (IF Readable(apiReq.upload) /\ ForwardRaises(apiReq.x)
                 THEN 500 ELSE 400)
         /\ (Readable(apiReq.upload) /\ ~ForwardRaises(apiReq.x)) =>
              apiResp.why = "target_class out of range"
    /\ (apiResp.hooks > 0 \/ apiResp.camArg # NoTarget) =>
         apiResp.camArg \in Labels

\* target_class = NumLabels sent with a readable image: rejected by the
\* range check
C16_Witness ==
  /\ apiResp.done
  /\ apiReq.ep = "predict_cam"
  /\ apiReq.tc = NumLabels
  /\ Readable(apiReq.upload)
  /\ apiResp.status = 400
  /\ apiResp.why = "target_class out of range"
  /\ apiResp.engines = 0

\* C17: POST /predict_cam without target_class, answered 200: the class
\* whose score get_cam backpropagates is the label of the first entry of
\* the returned predictions, ties for the maximum included.  np.argmax
\* takes a NaN for the maximum, which sorted() does not put first.
C17_TopOneExplained ==
  (apiResp.done /\ apiReq.ep = "predict_cam" /\ apiReq.tc = NoTarget
     /\ apiResp.status = 200) =>
    /\ apiResp.camArg = apiResp.predictions[1].label
    /\ apiResp.explained = apiResp.predictions[1].label

====
